---- MODULE Spec2Model ----
(***************************************************************************)
(* The per-request action-dispatch engine of the wasm-shim filter          *)
(* (src/src/filter/kuadrant_filter.rs), with the pending operations of     *)
(* src/src/filter/proposal_context.rs and the error response of            *)
(* src/src/service.rs.                                                     *)
(*                                                                         *)
(* One behaviour is the life of one request context: the host calls        *)
(* on_http_request_headers once, then on_grpc_call_response and            *)
(* on_http_response_headers; every callback runs to completion (the host   *)
(* is single-threaded), so each callback is one action.  Every call the    *)
(* filter makes into the host is appended to `trace`.                      *)
(*                                                                         *)
(* The header resolver of src/src/service.rs is a field of the filter:     *)
(* send_grpc_request asks it for the tracing headers of every call, and    *)
(* the first call reads them from the request.  Spec follows a request     *)
(* with a traceparent and a baggage header; SpecResolver follows requests  *)
(* with every combination of tracing headers.                              *)
(***************************************************************************)
EXTENDS Integers, Sequences, FiniteSets, TLC

VARIABLES
    grpc_message_receiver_operation, \* KuadrantFilter field, Option<GrpcMessageReceiverOperation>
    response_headers_to_add,         \* KuadrantFilter field, Option<Headers>
    request_headers_to_add,          \* KuadrantFilter field, Option<Headers>
    trace,                           \* host: callbacks delivered and host calls made, in order
    pending_rpc,                     \* host: gRPC calls accepted and not yet answered
    request_action,                  \* host: what on_http_request_headers returned
    response_calls,                  \* host: on_http_response_headers invocations so far
    panicked,                        \* the request context was aborted by a panic
    request_headers,                 \* host: the headers of the request
    header_resolver,                 \* KuadrantFilter field, HeaderResolver::headers (a OnceCell)
    authority_header,                \* host: the :authority header of a request, Option<String>
    authority,                       \* what request_authority returned for it, once called
    metadata,                        \* the metadata Struct of a service response
    attributes                       \* what process_metadata returned for it, once called

filter_vars == <<grpc_message_receiver_operation, response_headers_to_add,
                 request_headers_to_add, trace, pending_rpc, request_action,
                 response_calls, panicked, request_headers, header_resolver>>

authority_vars == <<authority_header, authority>>

metadata_vars == <<metadata, attributes>>

vars == <<filter_vars, authority_vars, metadata_vars>>

----------------------------------------------------------------------------
(* Bounds of the model *)

\* longest list of actions in an action set
MaxActions == 2
\* most AddHeaders operations handed to the filter one by one
MaxOperations == 2
\* longest :authority header, in characters
MaxAuthorityLen == 4
\* deepest nesting of structs in a metadata Struct
MaxDepth == 2
\* most fields of the outermost metadata Struct
MaxFields == 2
\* longest list of action sets returned by the index lookup
MaxSets == 2
\* on_http_response_headers invocations that are counted
MaxResponseCalls == 2

(* Program constants *)

\* proxy_wasm Status::Ok as u32
StatusOk == 0
\* envoy StatusCode::InternalServerError as u32
InternalServerError == 500

----------------------------------------------------------------------------
(* Option<T>: None is the empty sequence, Some(x) the one-element sequence *)

None == <<>>
Some(x) == <<x>>
IsSome(o) == Len(o) = 1
IsNone(o) == Len(o) = 0
Unwrap(o) == o[1]

----------------------------------------------------------------------------
(* Inputs *)

FailureModes == {"deny", "allow"}

\* an action: the failure mode of its service and the value of its predicate
Actions == [failure_mode : FailureModes, applies : BOOLEAN]

RECURSIVE SeqsUpTo(_, _)
SeqsUpTo(S, n) ==
    IF n = 0 THEN {<<>>}
    ELSE LET shorter == SeqsUpTo(S, n - 1)
         IN shorter \cup {Append(s, x) : s \in {t \in shorter : Len(t) = n - 1}, x \in S}

\* the non-empty lists of actions of an action set
ActionLists == SeqsUpTo(Actions, MaxActions) \ {<<>>}

\* What the index returns for the request authority: absent, or a list of
\* action sets.  The sets of one list differ in name and conditions; the
\* filter reads the actions of the selected set only.
LookupResults ==
    {None} \cup
    UNION {{Some([k \in 1..n |-> [name |-> k, conditions |-> conds[k], actions |-> acts]]) :
                conds \in [1..n -> BOOLEAN], acts \in ActionLists} : n \in 1..MaxSets}

\* the header lists a service response can carry
HeaderLists == { << <<"x-a", "1">> >>, << <<"x-a", "2">>, <<"x-b", "1">> >> }

HeaderKinds == [kind : {"Request", "Response"}, headers : HeaderLists]

\* the direct responses a denying service can ask for
ErrResponses ==
    { [status_code |-> 403,
       response_headers |-> << <<"www-authenticate", "Bearer">> >>,
       body |-> "forbidden"],
      [status_code |-> 429, response_headers |-> <<>>, body |-> "too many"] }

\* a decoded service response
Messages ==
    [verdict : {"OK"}, headers : {None} \cup {Some(h) : h \in HeaderKinds}]
    \cup [verdict : {"DENIED"}, response : ErrResponses]

\* What on_grpc_call_response is given: the status code and the body that
\* get_grpc_call_response_body returns.  A call that failed has no body.
GrpcResponses ==
    [status_code : {StatusOk}, body : {None} \cup {Some(m) : m \in Messages}]
    \cup [status_code : {14}, body : {None}]

DispatchResults == {"Ok", "Err"}

----------------------------------------------------------------------------
(* service.rs *)

new_internal_server_error ==
    [status_code |-> InternalServerError,
     response_headers |-> <<>>,
     body |-> "Internal Server Error.\n"]

----------------------------------------------------------------------------
(* RuntimeActionSet: the action set the filter drives (spec 4.3)           *)

Applicable(action_set, from) ==
    {i \in from..(Len(action_set.actions) - 1) : action_set.actions[i + 1].applies}

Min(S) == CHOOSE x \in S : \A y \in S : x <= y

\* the first applicable action at index >= from, as an IndexedGrpcRequest
next_grpc_request(action_set, from) ==
    IF Applicable(action_set, from) = {} THEN None
    ELSE Some([index |-> Min(Applicable(action_set, from))])

find_first_grpc_request(action_set) == next_grpc_request(action_set, 0)

conditions_apply(action_set) == action_set.conditions

\* Ok((next request, headers)) or Err(error response)
process_grpc_response(action_set, index, msg) ==
    IF msg.verdict = "DENIED"
    THEN [ok |-> FALSE, err |-> msg.response]
    ELSE [ok |-> TRUE,
          next_msg |-> next_grpc_request(action_set, index + 1),
          headers |-> msg.headers]

\* on_http_request_headers passing over the sets that have no request to send
find_action_set_with_request(action_sets) ==
    LET hits == {k \in 1..Len(action_sets) :
                    /\ conditions_apply(action_sets[k])
                    /\ IsSome(find_first_grpc_request(action_sets[k]))}
    IN IF hits = {} THEN None ELSE Some(action_sets[Min(hits)])

\* Iterator::find over the looked-up action sets
find_action_set(action_sets) ==
    LET hits == {k \in 1..Len(action_sets) : conditions_apply(action_sets[k])}
    IN IF hits = {} THEN None ELSE Some(action_sets[Min(hits)])

----------------------------------------------------------------------------
(* Pending operations *)

OpDone == [op |-> "Done"]
OpDie(resp) == [op |-> "Die", die |-> resp]
OpAddHeaders(h) == [op |-> "AddHeaders", headers |-> h]
OpAwaitGrpcResponse(receiver_op) == [op |-> "AwaitGrpcResponse", receiver |-> receiver_op]
OpSendGrpcRequest(action_set, indexed_req) ==
    [op |-> "SendGrpcRequest", runtime_action_set |-> action_set, grpc_request |-> indexed_req]

GrpcMessageReceiverOperation_new(action_set, index) ==
    [runtime_action_set |-> action_set, current_index |-> index]

\* build_receiver_operation handing the receiver the index of the next action
build_receiver_operation_next(sender_op) ==
    GrpcMessageReceiverOperation_new(sender_op.runtime_action_set,
                                     sender_op.grpc_request.index + 1)

build_receiver_operation(sender_op) ==
    GrpcMessageReceiverOperation_new(sender_op.runtime_action_set, sender_op.grpc_request.index)

fail(receiver) == OpDie(new_internal_server_error)

next_operation(action_set, next_msg) ==
    IF IsNone(next_msg) THEN OpDone
    ELSE OpSendGrpcRequest(action_set, Unwrap(next_msg))

\* digest_grpc_response pushing the next operation before the AddHeaders
digest_grpc_response_send_first(receiver, msg) ==
    LET result == process_grpc_response(receiver.runtime_action_set, receiver.current_index, msg)
    IN IF result.ok
       THEN <<next_operation(receiver.runtime_action_set, result.next_msg)>>
            \o (IF IsSome(result.headers) THEN <<OpAddHeaders(Unwrap(result.headers))>> ELSE <<>>)
       ELSE <<OpDie(result.err)>>

digest_grpc_response(receiver, msg) ==
    LET result == process_grpc_response(receiver.runtime_action_set, receiver.current_index, msg)
    IN IF result.ok
       THEN (IF IsSome(result.headers) THEN <<OpAddHeaders(Unwrap(result.headers))>> ELSE <<>>)
            \o <<next_operation(receiver.runtime_action_set, result.next_msg)>>
       ELSE <<OpDie(result.err)>>

----------------------------------------------------------------------------
(* HeaderResolver: the tracing headers of the request, read on first use. *)

RequestHeaderNames == {"traceparent", "tracestate", "baggage", "x-request-id"}

\* the headers a request may have: every tracing header present or not,
\* next to a header that is not a tracing header
RequestHeaderMaps ==
    {[h \in RequestHeaderNames |->
        CASE h = "traceparent" -> tp
          [] h = "tracestate" -> ts
          [] h = "baggage" -> bg
          [] OTHER -> Some("id-1")] :
        tp \in {None, Some("tp-1"), Some("tp-2")},
        ts \in {None, Some("ts-1")},
        bg \in {None, Some("bg-1")}}

\* ctx.get_http_request_header_bytes(name)
get_http_request_header_bytes(headers, name) ==
    IF name \in DOMAIN headers THEN headers[name] ELSE None

\* TracingHeader::all in another order
TracingHeader_all_reordered == <<"Baggage", "Tracestate", "Traceparent">>

TracingHeader_all == <<"Traceparent", "Tracestate", "Baggage">>

as_str(header) ==
    CASE header = "Traceparent" -> "traceparent"
      [] header = "Tracestate" -> "tracestate"
      [] header = "Baggage" -> "baggage"

\* the closure of get_or_init: the loop over TracingHeader::all(), from the
\* i-th header on
RECURSIVE read_tracing_headers(_, _)
read_tracing_headers(ctx_headers, i) ==
    IF i > Len(TracingHeader_all) THEN <<>>
    ELSE LET name == as_str(TracingHeader_all[i])
             value == get_http_request_header_bytes(ctx_headers, name)
         IN (IF IsSome(value) THEN <<<<name, Unwrap(value)>>>> ELSE <<>>)
            \o read_tracing_headers(ctx_headers, i + 1)

\* get_with_ctx reading the request headers at every call
get_with_ctx_uncached(resolver, ctx_headers) ==
    [headers |-> Some(read_tracing_headers(ctx_headers, 1)),
     value |-> read_tracing_headers(ctx_headers, 1),
     reads |-> [i \in 1..Len(TracingHeader_all) |-> as_str(TracingHeader_all[i])]]

\* self.headers.get_or_init(|| ...): the cell afterwards, the list returned
\* and the headers asked of the host
get_with_ctx(resolver, ctx_headers) ==
    IF IsSome(resolver)
    THEN [headers |-> resolver, value |-> Unwrap(resolver), reads |-> <<>>]
    ELSE [headers |-> Some(read_tracing_headers(ctx_headers, 1)),
          value |-> read_tracing_headers(ctx_headers, 1),
          reads |-> [i \in 1..Len(TracingHeader_all) |-> as_str(TracingHeader_all[i])]]

\* a request with a traceparent and a baggage header
TracedRequest ==
    [h \in RequestHeaderNames |->
        CASE h = "traceparent" -> Some("tp-1")
          [] h = "tracestate" -> None
          [] h = "baggage" -> Some("bg-1")
          [] OTHER -> Some("id-1")]

----------------------------------------------------------------------------
(* KuadrantFilter.  `self` is the filter together with the host it calls:  *)
(* the fields, the trace, the host's count of pending calls and the        *)
(* headers of the request.                                                 *)

Self ==
    [grpc_message_receiver_operation |-> grpc_message_receiver_operation,
     response_headers_to_add |-> response_headers_to_add,
     request_headers_to_add |-> request_headers_to_add,
     header_resolver |-> header_resolver,
     trace |-> trace,
     pending_rpc |-> pending_rpc,
     request_headers |-> request_headers]

HostCall(self, entry) == [self EXCEPT !.trace = Append(@, entry)]

HeaderCalls(ev, headers) ==
    [i \in 1..Len(headers) |-> [ev |-> ev, header |-> headers[i][1], value |-> headers[i][2]]]

add_request_headers(self) ==
    IF IsSome(self.request_headers_to_add)
    THEN [self EXCEPT
            !.trace = @ \o HeaderCalls("add_http_request_header", Unwrap(self.request_headers_to_add)),
            !.request_headers_to_add = None]
    ELSE self

\* die resuming the request after the direct response
die_and_resume(self, die_op) ==
    HostCall(HostCall(self, [ev |-> "send_http_response",
                             status_code |-> die_op.status_code,
                             headers |-> die_op.response_headers,
                             body |-> die_op.body]),
             [ev |-> "resume_http_request"])

die(self, die_op) ==
    HostCall(self, [ev |-> "send_http_response",
                    status_code |-> die_op.status_code,
                    headers |-> die_op.response_headers,
                    body |-> die_op.body])

\* send_grpc_request: the resolver hands out the tracing headers, reading
\* them from the request on first use, and the call goes to the host with
\* them.  The entry of the call also records what the filter held at the
\* moment of the call.
send_grpc_request(self, sender_op, dispatch) ==
    LET got == get_with_ctx(self.header_resolver, self.request_headers)
        resolved == [self EXCEPT
                       !.trace = @ \o [i \in 1..Len(got.reads) |->
                                          [ev |-> "get_http_request_header_bytes",
                                           name |-> got.reads[i]]],
                       !.header_resolver = got.headers]
        called == HostCall(resolved,
            [ev |-> "dispatch_grpc_call",
             headers |-> got.value,
             action_set |-> sender_op.runtime_action_set,
             index |-> sender_op.grpc_request.index,
             result |-> dispatch,
             receiver_stored |-> IsSome(self.grpc_message_receiver_operation),
             request_buffer |-> self.request_headers_to_add,
             response_buffer |-> self.response_headers_to_add])
    IN IF dispatch = "Ok" THEN [called EXCEPT !.pending_rpc = @ + 1] ELSE called

\* handle_operation answering Continue while the gRPC response is awaited
handle_AwaitGrpcResponse_continue(self, receiver_op) ==
    [self |-> [self EXCEPT !.grpc_message_receiver_operation = Some(receiver_op)],
     action |-> "Continue"]

handle_AwaitGrpcResponse(self, receiver_op) ==
    [self |-> [self EXCEPT !.grpc_message_receiver_operation = Some(receiver_op)],
     action |-> "Pause"]

\* handle_AddHeaders opening a buffer again once its phase has ended
handle_AddHeaders_reopened(self, header_op) ==
    [self |->
        IF header_op.kind = "Request"
        THEN (IF IsSome(self.request_headers_to_add)
              THEN [self EXCEPT !.request_headers_to_add = Some(Unwrap(@) \o header_op.headers)]
              ELSE [self EXCEPT !.request_headers_to_add = Some(header_op.headers)])
        ELSE (IF IsSome(self.response_headers_to_add)
              THEN [self EXCEPT !.response_headers_to_add = Some(Unwrap(@) \o header_op.headers)]
              ELSE [self EXCEPT !.response_headers_to_add = Some(header_op.headers)]),
     action |-> "Continue"]

\* handle_AddHeaders with the two match arms exchanged
handle_AddHeaders_crossed(self, header_op) ==
    [self |->
        IF header_op.kind = "Response"
        THEN (IF IsSome(self.request_headers_to_add)
              THEN [self EXCEPT !.request_headers_to_add = Some(Unwrap(@) \o header_op.headers)]
              ELSE self)
        ELSE (IF IsSome(self.response_headers_to_add)
              THEN [self EXCEPT !.response_headers_to_add = Some(Unwrap(@) \o header_op.headers)]
              ELSE self),
     action |-> "Continue"]

handle_AddHeaders(self, header_op) ==
    [self |->
        IF header_op.kind = "Request"
        THEN (IF IsSome(self.request_headers_to_add)
              THEN [self EXCEPT !.request_headers_to_add = Some(Unwrap(@) \o header_op.headers)]
              ELSE self)
        ELSE (IF IsSome(self.response_headers_to_add)
              THEN [self EXCEPT !.response_headers_to_add = Some(Unwrap(@) \o header_op.headers)]
              ELSE self),
     action |-> "Continue"]

\* handle_Die applying the buffered request headers before the response
handle_Die_apply_headers(self, die_op) ==
    [self |-> die(add_request_headers(self), die_op), action |-> "Continue"]

handle_Die(self, die_op) ==
    [self |-> die(self, die_op), action |-> "Continue"]

\* handle_Done resuming the request before it applies the request headers
handle_Done_resume_first(self) ==
    [self |-> add_request_headers(HostCall(self, [ev |-> "resume_http_request"])),
     action |-> "Continue"]

handle_Done(self) ==
    [self |-> HostCall(add_request_headers(self), [ev |-> "resume_http_request"]),
     action |-> "Continue"]

\* handle_operation awaiting a response whatever the dispatch returned
after_send_unchecked(sender_op, dispatch) ==
    OpAwaitGrpcResponse(build_receiver_operation(sender_op))

\* the operation that follows the dispatch of sender_op
after_send(sender_op, dispatch) ==
    IF dispatch = "Ok"
    THEN OpAwaitGrpcResponse(build_receiver_operation(sender_op))
    ELSE fail(build_receiver_operation(sender_op))

RECURSIVE handle_operation(_, _, _)
handle_operation(self, operation, dispatch) ==
    CASE operation.op = "SendGrpcRequest" ->
            handle_operation(send_grpc_request(self, operation, dispatch),
                             after_send(operation, dispatch), dispatch)
      [] operation.op = "AwaitGrpcResponse" -> handle_AwaitGrpcResponse(self, operation.receiver)
      [] operation.op = "AddHeaders" -> handle_AddHeaders(self, operation.headers)
      [] operation.op = "Die" -> handle_Die(self, operation.die)
      [] operation.op = "Done" -> handle_Done(self)

\* ops.into_iter().for_each(|op| self.handle_operation(op))
RECURSIVE handle_operations(_, _, _)
handle_operations(self, ops, dispatch) ==
    IF ops = <<>> THEN self
    ELSE handle_operations(handle_operation(self, Head(ops), dispatch).self, Tail(ops), dispatch)

start_flow(self, action_set, dispatch) ==
    handle_operation(self,
                     next_operation(action_set, find_first_grpc_request(action_set)),
                     dispatch)

\* on_grpc_call_response reading the receiver without taking it
take_receiver_kept(self) == self

\* mem::take(&mut self.grpc_message_receiver_operation)
take_receiver(self) == [self EXCEPT !.grpc_message_receiver_operation = None]

\* on_grpc_call_response sending the failed request again
response_operations_retry(receiver, status_code, body) ==
    IF status_code # StatusOk
    THEN <<OpSendGrpcRequest(receiver.runtime_action_set, [index |-> receiver.current_index])>>
    ELSE IF IsSome(body) THEN digest_grpc_response(receiver, Unwrap(body))
    ELSE <<fail(receiver)>>

\* the operations on_grpc_call_response hands to handle_operation
response_operations(receiver, status_code, body) ==
    IF status_code # StatusOk THEN <<fail(receiver)>>
    ELSE IF IsSome(body) THEN digest_grpc_response(receiver, Unwrap(body))
    ELSE <<fail(receiver)>>

\* the action set on_http_request_headers selects from the lookup result
select_action_set(action_sets) ==
    IF IsSome(action_sets) THEN find_action_set(Unwrap(action_sets)) ELSE None

\* on_http_request_headers treating a request without action set as Done
request_headers_flow_done_on_no_match(self, action_sets, dispatch) ==
    LET selected == select_action_set(action_sets)
        flow == IF IsSome(selected)
                THEN start_flow(self, Unwrap(selected), dispatch)
                ELSE handle_operation(self, OpDone, dispatch)
    IN IF flow.action = "Continue"
       THEN [self |-> add_request_headers(flow.self), action |-> "Continue"]
       ELSE flow

request_headers_flow(self, action_sets, dispatch) ==
    LET selected == select_action_set(action_sets)
        flow == IF IsSome(selected)
                THEN start_flow(self, Unwrap(selected), dispatch)
                ELSE [self |-> self, action |-> "Continue"]
    IN IF flow.action = "Continue"
       THEN [self |-> add_request_headers(flow.self), action |-> "Continue"]
       ELSE flow

\* on_http_response_headers reading the buffer without taking it
response_headers_flow_kept(self) ==
    IF IsSome(self.response_headers_to_add)
    THEN [self EXCEPT
            !.trace = @ \o HeaderCalls("add_http_response_header", Unwrap(self.response_headers_to_add))]
    ELSE self

response_headers_flow(self) ==
    IF IsSome(self.response_headers_to_add)
    THEN [self EXCEPT
            !.trace = @ \o HeaderCalls("add_http_response_header", Unwrap(self.response_headers_to_add)),
            !.response_headers_to_add = None]
    ELSE self

----------------------------------------------------------------------------
(* The state machine *)

\* HeaderResolver::new, for a request with a traceparent and a baggage
\* header
NewResolver ==
    /\ request_headers = TracedRequest
    /\ header_resolver = None

\* the :authority header is left out: the result of the lookup is an input
NoAuthority ==
    /\ authority_header = <<>>
    /\ authority = <<>>

\* and the metadata of the responses
NoMetadata ==
    /\ metadata = <<>>
    /\ attributes = <<>>

Install(self) ==
    /\ grpc_message_receiver_operation' = self.grpc_message_receiver_operation
    /\ response_headers_to_add' = self.response_headers_to_add
    /\ request_headers_to_add' = self.request_headers_to_add
    /\ header_resolver' = self.header_resolver
    /\ trace' = self.trace
    /\ pending_rpc' = self.pending_rpc

\* KuadrantFilter::new
Init ==
    /\ grpc_message_receiver_operation = None
    /\ response_headers_to_add = Some(<<>>)
    /\ request_headers_to_add = Some(<<>>)
    /\ trace = <<>>
    /\ pending_rpc = 0
    /\ request_action = "NotCalled"
    /\ response_calls = 0
    /\ panicked = FALSE
    /\ NewResolver
    /\ NoAuthority
    /\ NoMetadata

on_http_request_headers ==
    /\ ~panicked
    /\ request_action = "NotCalled"
    /\ \E action_sets \in LookupResults, dispatch \in DispatchResults :
          LET entered == HostCall(Self, [ev |-> "on_http_request_headers",
                                         matched |-> IsSome(action_sets),
                                         selected |-> select_action_set(action_sets)])
              flow == request_headers_flow(entered, action_sets, dispatch)
          IN /\ Install(flow.self)
             /\ request_action' = flow.action
    /\ UNCHANGED <<response_calls, panicked, request_headers, authority_vars, metadata_vars>>

\* on_grpc_call_response ending the flow when no receiver is stored
on_grpc_call_response_lenient ==
    /\ ~panicked
    /\ IF IsNone(grpc_message_receiver_operation)
       THEN /\ pending_rpc = 0
            /\ Install(handle_Done(Self).self)
       ELSE /\ \E response \in GrpcResponses, dispatch \in DispatchResults :
                  LET answered == [HostCall(Self, [ev |-> "on_grpc_call_response",
                                                   status_code |-> response.status_code,
                                                   body |-> response.body])
                                     EXCEPT !.pending_rpc = @ - 1]
                      entered == take_receiver(answered)
                  IN Install(handle_operations(
                                entered,
                                response_operations(Unwrap(grpc_message_receiver_operation),
                                                    response.status_code, response.body),
                                dispatch))
    /\ UNCHANGED <<request_action, response_calls, panicked, request_headers, authority_vars, metadata_vars>>

on_grpc_call_response ==
    /\ ~panicked
    /\ IF IsNone(grpc_message_receiver_operation)
       THEN \* expect("We need an operation pending a gRPC response")
            /\ pending_rpc = 0
            /\ panicked' = TRUE
            /\ UNCHANGED <<grpc_message_receiver_operation, response_headers_to_add,
                           request_headers_to_add, header_resolver, trace, pending_rpc>>
       ELSE /\ \E response \in GrpcResponses, dispatch \in DispatchResults :
                  LET answered == [HostCall(Self, [ev |-> "on_grpc_call_response",
                                                   status_code |-> response.status_code,
                                                   body |-> response.body])
                                     EXCEPT !.pending_rpc = @ - 1]
                      entered == take_receiver(answered)
                  IN Install(handle_operations(
                                entered,
                                response_operations(Unwrap(grpc_message_receiver_operation),
                                                    response.status_code, response.body),
                                dispatch))
            /\ UNCHANGED panicked
    /\ UNCHANGED <<request_action, response_calls, request_headers, authority_vars, metadata_vars>>

on_http_response_headers ==
    /\ ~panicked
    /\ request_action # "NotCalled"
    /\ response_calls < MaxResponseCalls
    /\ response_calls' = response_calls + 1
    /\ Install(response_headers_flow(HostCall(Self, [ev |-> "on_http_response_headers"])))
    /\ UNCHANGED <<request_action, panicked, request_headers, authority_vars, metadata_vars>>

Next ==
    \/ on_http_request_headers
    \/ on_grpc_call_response
    \/ on_http_response_headers

Spec == Init /\ [][Next]_vars

----------------------------------------------------------------------------
(* The same life of a request, with the looked-up list kept in the trace   *)
(* and action sets that differ from one another within a list.             *)

SelectActionLists ==
    {<<[failure_mode |-> "deny", applies |-> FALSE]>>,
     <<[failure_mode |-> "deny", applies |-> TRUE]>>,
     <<[failure_mode |-> "deny", applies |-> TRUE], [failure_mode |-> "deny", applies |-> TRUE]>>}

\* what get_longest_match_action_sets may return
RecordedLookups ==
    {None} \cup
    UNION {{Some([k \in 1..n |-> [name |-> k, conditions |-> conds[k], actions |-> acts[k]]]) :
               conds \in [1..n -> BOOLEAN], acts \in [1..n -> SelectActionLists]} :
           n \in 1..MaxSets}

on_http_request_headers_recorded ==
    /\ ~panicked
    /\ request_action = "NotCalled"
    /\ \E action_sets \in RecordedLookups, dispatch \in DispatchResults :
          LET entered == HostCall(Self, [ev |-> "on_http_request_headers",
                                         matched |-> IsSome(action_sets),
                                         selected |-> select_action_set(action_sets),
                                         action_sets |-> action_sets])
              flow == request_headers_flow(entered, action_sets, dispatch)
          IN /\ Install(flow.self)
             /\ request_action' = flow.action
    /\ UNCHANGED <<response_calls, panicked, request_headers, authority_vars, metadata_vars>>

NextSelect ==
    \/ on_http_request_headers_recorded
    \/ on_grpc_call_response
    \/ on_http_response_headers

SpecSelect == Init /\ [][NextSelect]_vars

\* The host answers every gRPC call it accepted: a response, a failure or
\* the per-call timeout arrives as on_grpc_call_response.
SpecFair == Spec /\ WF_vars(pending_rpc > 0 /\ on_grpc_call_response)

----------------------------------------------------------------------------
(* The life of a request whose action set sends one gRPC request per       *)
(* action, for every combination of tracing headers on the request.        *)

\* what get_longest_match_action_sets returns: one action set, all of its
\* actions applicable
TracedLookups ==
    {Some(<<[name |-> 1, conditions |-> TRUE,
             actions |-> [k \in 1..n |-> [failure_mode |-> "deny", applies |-> TRUE]]]>>) :
        n \in 1..MaxActions}

\* KuadrantFilter::new with HeaderResolver::new
InitResolver ==
    /\ grpc_message_receiver_operation = None
    /\ response_headers_to_add = Some(<<>>)
    /\ request_headers_to_add = Some(<<>>)
    /\ trace = <<>>
    /\ pending_rpc = 0
    /\ request_action = "NotCalled"
    /\ response_calls = 0
    /\ panicked = FALSE
    /\ request_headers \in RequestHeaderMaps
    /\ header_resolver = None
    /\ NoAuthority
    /\ NoMetadata

on_http_request_headers_traced ==
    /\ ~panicked
    /\ request_action = "NotCalled"
    /\ \E action_sets \in TracedLookups, dispatch \in DispatchResults :
          LET entered == HostCall(Self, [ev |-> "on_http_request_headers",
                                         matched |-> IsSome(action_sets),
                                         selected |-> select_action_set(action_sets)])
              flow == request_headers_flow(entered, action_sets, dispatch)
          IN /\ Install(flow.self)
             /\ request_action' = flow.action
    /\ UNCHANGED <<response_calls, panicked, request_headers, authority_vars, metadata_vars>>

NextResolver ==
    \/ on_http_request_headers_traced
    \/ on_grpc_call_response
    \/ on_http_response_headers

SpecResolver == InitResolver /\ [][NextResolver]_vars

----------------------------------------------------------------------------
(* handle_operation on its own: next to the callbacks of the host, the     *)
(* filter of a request whose headers have arrived is handed AddHeaders and *)
(* Done operations one at a time, in any order.                            *)

\* what get_longest_match_action_sets returns: one action set with one
\* applicable action
HeldLookups ==
    {Some(<<[name |-> 1, conditions |-> TRUE,
             actions |-> <<[failure_mode |-> fm, applies |-> TRUE]>>]>>) :
        fm \in FailureModes}

on_http_request_headers_held ==
    /\ ~panicked
    /\ request_action = "NotCalled"
    /\ \E action_sets \in HeldLookups, dispatch \in DispatchResults :
          LET entered == HostCall(Self, [ev |-> "on_http_request_headers",
                                         matched |-> IsSome(action_sets),
                                         selected |-> select_action_set(action_sets)])
              flow == request_headers_flow(entered, action_sets, dispatch)
          IN /\ Install(flow.self)
             /\ request_action' = flow.action
    /\ UNCHANGED <<response_calls, panicked, request_headers, authority_vars, metadata_vars>>

\* handle_operation(Operation::AddHeaders(header_op))
handle_operation_AddHeaders ==
    /\ ~panicked
    /\ request_action # "NotCalled"
    /\ Cardinality({p \in DOMAIN trace : trace[p].ev = "handle_operation"}) < MaxOperations
    /\ \E header_op \in HeaderKinds :
          LET operation == OpAddHeaders(header_op)
              entered == HostCall(Self, [ev |-> "handle_operation", operation |-> operation])
          IN Install(handle_operation(entered, operation, "Ok").self)
    /\ UNCHANGED <<request_action, response_calls, panicked, request_headers, authority_vars, metadata_vars>>

\* handle_operation(Operation::Done), which ends the request phase
handle_operation_Done ==
    /\ ~panicked
    /\ request_action # "NotCalled"
    /\ \A p \in DOMAIN trace : trace[p].ev # "resume_http_request"
    /\ Install(handle_operation(Self, OpDone, "Ok").self)
    /\ UNCHANGED <<request_action, response_calls, panicked, request_headers, authority_vars, metadata_vars>>

NextOperation ==
    \/ on_http_request_headers_held
    \/ on_grpc_call_response
    \/ on_http_response_headers
    \/ handle_operation_AddHeaders
    \/ handle_operation_Done

SpecOperation == Init /\ [][NextOperation]_vars

----------------------------------------------------------------------------
(* request_authority.  A string is the sequence of its characters.         *)

\* the characters of an :authority header: a letter, a digit, the colon and
\* the brackets of an IP literal
AuthorityChars == {"h", "8", ":", "[", "]"}

AuthorityHeaders ==
    {None} \cup {Some(s) : s \in UNION {[1..n -> AuthorityChars] : n \in 0..MaxAuthorityLen}}

\* host.split(sep).collect::<Vec<_>>()
RECURSIVE split(_, _)
split(host, sep) ==
    IF \A i \in DOMAIN host : host[i] # sep THEN <<host>>
    ELSE LET i == CHOOSE k \in DOMAIN host :
                      host[k] = sep /\ \A j \in 1..(k - 1) : host[j] # sep
         IN <<SubSeq(host, 1, i - 1)>> \o split(SubSeq(host, i + 1, Len(host)), sep)

request_authority(header) ==
    IF IsNone(header) THEN <<>>
    ELSE split(Unwrap(header), ":")[1]

InitAuthority ==
    /\ grpc_message_receiver_operation = None
    /\ response_headers_to_add = Some(<<>>)
    /\ request_headers_to_add = Some(<<>>)
    /\ trace = <<>>
    /\ pending_rpc = 0
    /\ request_action = "NotCalled"
    /\ response_calls = 0
    /\ panicked = FALSE
    /\ NewResolver
    /\ authority_header \in AuthorityHeaders
    /\ authority = None
    /\ NoMetadata

\* self.request_authority(), as on_http_request_headers calls it
call_request_authority ==
    /\ IsNone(authority)
    /\ authority' = Some(request_authority(authority_header))
    /\ UNCHANGED <<filter_vars, authority_header, metadata_vars>>

NextAuthority == call_request_authority

SpecAuthority == InitAuthority /\ [][NextAuthority]_vars

----------------------------------------------------------------------------
(* process_metadata.  A Struct is the list of its (key, value) fields in   *)
(* the order the map iterates them; the keys of one Struct are distinct.   *)

MetadataKeys == {"", "a", "b"}

\* protobuf Value kinds that are no struct
ScalarValues ==
    {[kind |-> "string", string_value |-> "bob"],
     [kind |-> "bool", bool_value |-> TRUE],
     [kind |-> "null"],
     [kind |-> "number", number_value |-> 1]}

ListValue == [kind |-> "list"]

StructValue(fields) == [kind |-> "struct", struct_value |-> fields]

\* structs nested d deep inside one another, one field each
RECURSIVE NestedStructs(_)
NestedStructs(d) ==
    IF d = 0 THEN {}
    ELSE {<<>>} \cup
         {<< <<key, value>> >> :
             key \in MetadataKeys,
             value \in {[kind |-> "string", string_value |-> "bob"],
                        [kind |-> "number", number_value |-> 1]}
                       \cup {StructValue(n) : n \in NestedStructs(d - 1)}}

MetadataValues ==
    ScalarValues \cup {ListValue} \cup {StructValue(n) : n \in NestedStructs(MaxDepth - 1)}

MetadataStructs ==
    UNION {{fields \in [1..n -> MetadataKeys \X MetadataValues] :
               \A i, j \in 1..n : fields[i][1] = fields[j][1] => i = j} :
           n \in 0..MaxFields}

\* serde_json::to_string of the Value made from a scalar
to_string(value) ==
    CASE value.kind = "string" -> "\"" \o value.string_value \o "\""
      [] value.kind = "bool" -> (IF value.bool_value THEN "true" ELSE "false")
      [] value.kind = "null" -> "null"
      [] value.kind = "number" -> ToString(value.number_value) \o ".0"

RECURSIVE process_metadata(_, _)
process_metadata(s, prefix) ==
    IF s = <<>> THEN <<>>
    ELSE LET key == s[1][1]
             value == s[1][2]
             current_prefix == IF prefix = "" THEN key ELSE prefix \o "\\." \o key
         IN (IF value.kind = "struct"
             THEN process_metadata(value.struct_value, current_prefix)
             ELSE IF value.kind \in {"string", "bool", "null", "number"}
             THEN << <<current_prefix, to_string(value)>> >>
             ELSE <<>>)
            \o process_metadata(Tail(s), prefix)

InitMetadata ==
    /\ grpc_message_receiver_operation = None
    /\ response_headers_to_add = Some(<<>>)
    /\ request_headers_to_add = Some(<<>>)
    /\ trace = <<>>
    /\ pending_rpc = 0
    /\ request_action = "NotCalled"
    /\ response_calls = 0
    /\ panicked = FALSE
    /\ NewResolver
    /\ NoAuthority
    /\ metadata \in MetadataStructs
    /\ attributes = None

\* process_metadata(metastruct, String::new()), as store_metadata calls it
call_process_metadata ==
    /\ IsNone(attributes)
    /\ attributes' = Some(process_metadata(metadata, ""))
    /\ UNCHANGED <<filter_vars, authority_vars, metadata>>

NextMetadata == call_process_metadata

SpecMetadata == InitMetadata /\ [][NextMetadata]_vars

----------------------------------------------------------------------------
(* Reading the trace *)

Positions(ev) == {p \in DOMAIN trace : trace[p].ev = ev}

Max(S) == CHOOSE x \in S : \A y \in S : x >= y

IsPrefix(s, t) == Len(s) <= Len(t) /\ \A i \in 1..Len(s) : s[i] = t[i]

\* the (header, value) pairs of the host calls `ev`, in call order
RECURSIVE AddedUpTo(_, _)
AddedUpTo(ev, p) ==
    IF p = 0 THEN <<>>
    ELSE IF trace[p].ev = ev
         THEN Append(AddedUpTo(ev, p - 1), <<trace[p].header, trace[p].value>>)
         ELSE AddedUpTo(ev, p - 1)

AddedRequestHeaders == AddedUpTo("add_http_request_header", Len(trace))
AddedResponseHeaders == AddedUpTo("add_http_response_header", Len(trace))

\* the response at position p was read and accepted by the service
AcceptedAt(p) ==
    /\ trace[p].ev = "on_grpc_call_response"
    /\ trace[p].status_code = StatusOk
    /\ IsSome(trace[p].body)
    /\ Unwrap(trace[p].body).verdict = "OK"

\* the response at position p carries header mutations of phase `kind`
ProducesAt(p, kind) ==
    /\ AcceptedAt(p)
    /\ IsSome(Unwrap(trace[p].body).headers)
    /\ Unwrap(Unwrap(trace[p].body).headers).kind = kind

HeadersAt(p) == Unwrap(Unwrap(trace[p].body).headers).headers

\* the header mutations of phase `kind` produced by the responses at positions 1..p
RECURSIVE ProducedUpTo(_, _)
ProducedUpTo(kind, p) ==
    IF p = 0 THEN <<>>
    ELSE IF ProducesAt(p, kind)
         THEN ProducedUpTo(kind, p - 1) \o HeadersAt(p)
         ELSE ProducedUpTo(kind, p - 1)

\* the response at position p is a transport failure
FailedAt(p) ==
    /\ trace[p].ev = "on_grpc_call_response"
    /\ (trace[p].status_code # StatusOk \/ IsNone(trace[p].body))

\* the action whose RPC was dispatched at position p
DispatchedAction(p) == trace[p].action_set.actions[trace[p].index + 1]

\* the action awaited by the response at position p
AwaitedAction(p) ==
    DispatchedAction(Max({q \in Positions("dispatch_grpc_call") : q < p}))

IsInternalServerError(e) ==
    /\ e.ev = "send_http_response"
    /\ e.status_code = InternalServerError
    /\ e.headers = <<>>
    /\ e.body = "Internal Server Error.\n"

\* the flow went on after position p: the next host call dispatches the next
\* RPC, or applies the request headers and resumes
FlowContinuesAfter(p) ==
    /\ p < Len(trace)
    /\ trace[p + 1].ev \in {"dispatch_grpc_call", "add_http_request_header", "resume_http_request"}
    /\ \A q \in Positions("send_http_response") : q < p

----------------------------------------------------------------------------
(* Claims *)

\* C1: a failed RPC response (non-OK status, or no readable body) is decided
\* by the failure mode of the awaited action: deny sends a 500 direct
\* response and does not resume; allow sends no direct response and lets
\* the flow continue.
C1_FailureModeDecidesFailedResponse ==
    \A p \in DOMAIN trace :
        FailedAt(p) =>
            IF AwaitedAction(p).failure_mode = "deny"
            THEN /\ p < Len(trace)
                 /\ IsInternalServerError(trace[p + 1])
                 /\ Positions("resume_http_request") = {}
            ELSE FlowContinuesAfter(p)

\* C2: a dispatch that fails synchronously is routed through the failure
\* mode of its action (deny: 500 direct response; allow: the flow continues)
\* and never aborts the request context.
C2_FailureModeDecidesFailedDispatch ==
    /\ \A p \in Positions("dispatch_grpc_call") :
          trace[p].result = "Err" =>
            IF DispatchedAction(p).failure_mode = "deny"
            THEN p < Len(trace) /\ IsInternalServerError(trace[p + 1])
            ELSE FlowContinuesAfter(p)
    /\ (\E p \in Positions("dispatch_grpc_call") : trace[p].result = "Err") => ~panicked

\* the error response the Die at position p carries: the service's denial,
\* or the internal server error of a failure
DieResponseAt(p) ==
    IF /\ trace[p - 1].ev = "on_grpc_call_response"
       /\ trace[p - 1].status_code = StatusOk
       /\ IsSome(trace[p - 1].body)
       /\ Unwrap(trace[p - 1].body).verdict = "DENIED"
    THEN Unwrap(trace[p - 1].body).response
    ELSE new_internal_server_error

\* C3: a Die sends exactly one direct response, carrying the status code,
\* headers and body of the error response, and the request is neither
\* resumed nor continued: no resume_http_request is made and
\* on_http_request_headers does not return Continue.
C3_DieSendsOneResponseAndNeverContinues ==
    /\ Cardinality(Positions("send_http_response")) <= 1
    /\ \A p \in Positions("send_http_response") :
          /\ trace[p].status_code = DieResponseAt(p).status_code
          /\ trace[p].headers = DieResponseAt(p).response_headers
          /\ trace[p].body = DieResponseAt(p).body
          /\ Positions("resume_http_request") = {}
          /\ request_action # "Continue"

\* C4: at most one RPC is outstanding: between a successful dispatch and
\* its response no other RPC is dispatched, and the stored receiver is
\* consumed before any further dispatch.
C4_AtMostOneOutstandingRpc ==
    /\ pending_rpc <= 1
    /\ (pending_rpc = 1) <=> IsSome(grpc_message_receiver_operation)
    /\ \A q \in Positions("dispatch_grpc_call") :
          /\ ~trace[q].receiver_stored
          /\ \A p \in Positions("dispatch_grpc_call") :
                (p < q /\ trace[p].result = "Ok") =>
                    \E r \in Positions("on_grpc_call_response") : p < r /\ r < q

\* a second RPC is awaited after the first one was answered
C4_Witness ==
    /\ pending_rpc = 1
    /\ \E p, q \in Positions("dispatch_grpc_call") :
          p < q /\ trace[p].result = "Ok" /\ trace[q].result = "Ok"

BufferAt(q, kind) ==
    IF kind = "Request" THEN trace[q].request_buffer ELSE trace[q].response_buffer

\* C5: RPCs are dispatched in strictly increasing action order, and the
\* response to one action is processed, the header mutations it produced
\* buffered, before the RPC of the next action is dispatched.
C5_DispatchInOrderAfterResponseProcessed ==
    \A q \in Positions("dispatch_grpc_call") :
        /\ \A p \in Positions("dispatch_grpc_call") :
              p < q => trace[p].index < trace[q].index
        /\ trace[q - 1].ev = "on_grpc_call_response" =>
              /\ AcceptedAt(q - 1)
              /\ \A kind \in {"Request", "Response"} :
                    IsSome(BufferAt(q, kind)) =>
                        Unwrap(BufferAt(q, kind)) = ProducedUpTo(kind, q - 1)

\* the RPC of a later action is dispatched from a response that carries
\* request headers
C5_Witness ==
    \E q \in Positions("dispatch_grpc_call") :
        /\ trace[q].index > 0
        /\ ProducesAt(q - 1, "Request")
        /\ Unwrap(trace[q].request_buffer) # <<>>

\* C6: the RPCs dispatched for a request are at most the actions of the
\* selected set, and no action is dispatched twice.
C6_AtMostOneRpcPerAction ==
    \A p \in Positions("dispatch_grpc_call") :
        /\ Cardinality(Positions("dispatch_grpc_call")) <= Len(trace[p].action_set.actions)
        /\ \A q \in Positions("dispatch_grpc_call") :
              /\ trace[q].action_set = trace[p].action_set
              /\ q # p => trace[q].index # trace[p].index

\* every action of a set of two or more was dispatched, and an RPC failed
C6_Witness ==
    /\ \E p \in Positions("dispatch_grpc_call") :
          /\ Cardinality(Positions("dispatch_grpc_call")) = Len(trace[p].action_set.actions)
          /\ Len(trace[p].action_set.actions) >= 2
    /\ \E r \in DOMAIN trace : FailedAt(r)

\* C7: when a paused request reaches Done, the buffered request headers
\* (those of the last response included) are added to the request exactly
\* once, immediately before the one resume_http_request call.
C7_RequestHeadersAppliedOnceBeforeResume ==
    request_action = "Pause" =>
        /\ Cardinality(Positions("resume_http_request")) <= 1
        /\ \A p \in Positions("resume_http_request") :
              LET produced == ProducedUpTo("Request", p)
              IN /\ AddedRequestHeaders = produced
                 /\ Positions("add_http_request_header") = (p - Len(produced))..(p - 1)
                 /\ IsNone(request_headers_to_add)
        /\ Positions("resume_http_request") = {} =>
              Positions("add_http_request_header") = {}

\* a paused request was resumed with the request headers of two responses
C7_Witness ==
    /\ request_action = "Pause"
    /\ \E p \in Positions("resume_http_request") :
          /\ trace[p - 1].ev = "add_http_request_header"
          /\ \E r, t \in DOMAIN trace :
                r < t /\ ProducesAt(r, "Request") /\ ProducesAt(t, "Request")

\* C8: the buffered response headers are added exactly once: by the first
\* on_http_response_headers, all of them; a later invocation adds none.
C8_ResponseHeadersAppliedOnceAtFirstCallback ==
    IF Positions("on_http_response_headers") = {}
    THEN /\ Positions("add_http_response_header") = {}
         /\ response_headers_to_add = Some(ProducedUpTo("Response", Len(trace)))
    ELSE LET p == Min(Positions("on_http_response_headers"))
             produced == ProducedUpTo("Response", p)
         IN /\ AddedResponseHeaders = produced
            /\ Positions("add_http_response_header") = (p + 1)..(p + Len(produced))
            /\ IsNone(response_headers_to_add)

\* on_http_response_headers ran twice and response headers were added
C8_Witness ==
    /\ Cardinality(Positions("on_http_response_headers")) >= 2
    /\ Len(AddedResponseHeaders) >= 2

\* C9: request-phase header mutations are added to the request only and
\* response-phase header mutations to the response only.
C9_HeadersNeverCrossPhases ==
    /\ IsPrefix(AddedRequestHeaders, ProducedUpTo("Request", Len(trace)))
    /\ IsPrefix(AddedResponseHeaders, ProducedUpTo("Response", Len(trace)))

\* different headers were added to the request and to the response
C9_Witness ==
    /\ AddedRequestHeaders # <<>>
    /\ AddedResponseHeaders # <<>>
    /\ AddedRequestHeaders # AddedResponseHeaders

\* the values the host holds for header `name` after the calls `ev`:
\* add_http_request_header and add_http_response_header add a value to the
\* header map, they do not replace the values it holds
HostHeaderValues(ev, name) ==
    LET added == AddedUpTo(ev, Len(trace))
        RECURSIVE Values(_)
        Values(i) ==
            IF i = 0 THEN <<>>
            ELSE IF added[i][1] = name THEN Append(Values(i - 1), added[i][2])
            ELSE Values(i - 1)
    IN Values(Len(added))

HeaderNames == {"x-a", "x-b"}

\* C10: when two mutations of one phase set the same header name, the
\* later one overrides the earlier: on the request, and on the response,
\* the host holds for that name no value but the last one written.
C10_LastWriterWins ==
    \A ev \in {"add_http_request_header", "add_http_response_header"} :
        \A name \in HeaderNames :
            LET values == HostHeaderValues(ev, name)
            IN \A i \in 1..Len(values) : values[i] = values[Len(values)]

----------------------------------------------------------------------------
(* The request-headers callback and the end of the flow *)

\* the lookup found no action set for the request authority
NoMatch == trace # <<>> /\ ~trace[1].matched

\* an action set was selected and none of its actions applies
NoApplicableAction ==
    /\ trace # <<>>
    /\ IsSome(trace[1].selected)
    /\ Applicable(Unwrap(trace[1].selected), 0) = {}

\* the filter made no host call but those listed in `allowed`
OnlyHostCalls(allowed) ==
    \A p \in DOMAIN trace :
        trace[p].ev \in allowed \cup {"on_http_request_headers", "on_grpc_call_response",
                                      "on_http_response_headers"}

\* C11: when no action set matches the authority, on_http_request_headers
\* returns Continue and nothing else happens: no RPC, no header on the
\* request or the response, no direct response, no resume, no receiver.
C11_NoMatchContinuesUntouched ==
    NoMatch =>
        /\ request_action = "Continue"
        /\ OnlyHostCalls({})
        /\ Positions("on_grpc_call_response") = {}
        /\ IsNone(grpc_message_receiver_operation)
        /\ pending_rpc = 0

\* a request without action set went through both header callbacks
C11_Witness ==
    NoMatch /\ request_action = "Continue" /\ response_calls >= 1

\* C12: when the selected action set has no applicable action, the filter
\* behaves as without action set: on_http_request_headers returns Continue,
\* with no further resume signal, no RPC and no header mutation.
C12_NoApplicableActionContinuesUntouched ==
    NoApplicableAction =>
        /\ request_action = "Continue"
        /\ OnlyHostCalls({})
        /\ IsNone(grpc_message_receiver_operation)

\* C13: once a direct response was sent, on_http_response_headers adds no
\* response header, whatever was buffered before the Die.
C13_NoResponseHeadersAfterDie ==
    \A p \in Positions("add_http_response_header") :
        \A q \in Positions("send_http_response") : p < q

\* C14: a Die does not apply the buffered request headers: when a direct
\* response is sent, no header is added to the request, before or after.
C14_DieAppliesNoRequestHeaders ==
    Positions("send_http_response") # {} =>
        Positions("add_http_request_header") = {}

\* a direct response was sent while request headers were buffered
C14_Witness ==
    /\ Positions("send_http_response") # {}
    /\ IsSome(request_headers_to_add)
    /\ Unwrap(request_headers_to_add) # <<>>

----------------------------------------------------------------------------
(* The gRPC response callback *)

Callbacks == {"on_http_request_headers", "on_grpc_call_response", "on_http_response_headers"}

\* the host calls made by the callback entered at p: the entries up to the
\* next callback or the end of the trace
CallsOf(p) ==
    {q \in (p + 1)..Len(trace) : \A r \in (p + 1)..q : trace[r].ev \notin Callbacks}

\* the callback entered at p is the last one so far
IsLastCallback(p) == \A q \in (p + 1)..Len(trace) : trace[q].ev \notin Callbacks

Resumed(calls) == {q \in calls : trace[q].ev = "resume_http_request"}
Died(calls) == {q \in calls : trace[q].ev = "send_http_response"}
Awaited(calls) ==
    {q \in calls : trace[q].ev = "dispatch_grpc_call" /\ trace[q].result = "Ok"}

\* C15: a gRPC response callback that finds no receiver stored is fatal:
\* the request context aborts, and the callback dispatches nothing, adds no
\* header, does not resume and sends no direct response.
C15_ResponseWithoutReceiverAborts ==
    [][(/\ IsNone(grpc_message_receiver_operation)
        /\ request_action' = request_action
        /\ response_calls' = response_calls)
       => (/\ panicked'
           /\ UNCHANGED <<trace, grpc_message_receiver_operation,
                          request_headers_to_add, response_headers_to_add>>)]_vars

\* a gRPC response arrived after the flow had ended and aborted the context
C15_Witness ==
    /\ panicked
    /\ IsNone(grpc_message_receiver_operation)
    /\ Positions("resume_http_request") \cup Positions("send_http_response") # {}

\* C16: every gRPC response callback that finds its receiver ends in
\* exactly one of: the request resumed once, one direct response sent, or
\* one further RPC dispatched with its receiver stored.
C16_ResponseCallbackHasOneOutcome ==
    \A p \in Positions("on_grpc_call_response") :
        LET calls == CallsOf(p)
        IN /\ Cardinality(Resumed(calls) \cup Died(calls) \cup Awaited(calls)) = 1
           /\ IsLastCallback(p) =>
                  (Awaited(calls) # {} <=> IsSome(grpc_message_receiver_operation))

\* one callback went on to a further RPC, the next one ended the flow
C16_Witness ==
    \E p, q \in Positions("on_grpc_call_response") :
        p < q /\ Awaited(CallsOf(p)) # {} /\ Resumed(CallsOf(q)) \cup Died(CallsOf(q)) # {}

\* C17: on_http_request_headers returns Pause exactly when it dispatched an
\* RPC and stored its receiver; after Continue no receiver is ever stored.
C17_PauseIffReceiverStored ==
    request_action # "NotCalled" =>
        /\ request_action = "Pause" <=> Awaited(CallsOf(1)) # {}
        /\ Positions("on_grpc_call_response") = {} =>
               (request_action = "Pause" <=> IsSome(grpc_message_receiver_operation))
        /\ request_action = "Continue" => IsNone(grpc_message_receiver_operation)

\* the callback answered Pause with a receiver stored
C17_Witness ==
    /\ request_action = "Pause"
    /\ Positions("on_grpc_call_response") = {}
    /\ IsSome(grpc_message_receiver_operation)
    /\ pending_rpc = 1

----------------------------------------------------------------------------
(* AddHeaders after the phase has ended *)

\* this step handles an AddHeaders operation of the given kind
HandlesAddHeaders(kind) ==
    /\ Len(trace') > Len(trace)
    /\ trace'[Len(trace) + 1].ev = "handle_operation"
    /\ trace'[Len(trace) + 1].operation.op = "AddHeaders"
    /\ trace'[Len(trace) + 1].operation.headers.kind = kind

\* this step makes no host call and leaves the filter as it was
Discarded ==
    /\ Len(trace') = Len(trace) + 1
    /\ UNCHANGED <<grpc_message_receiver_operation, request_headers_to_add,
                   response_headers_to_add>>

\* C18: an AddHeaders operation for the request phase handled after the
\* request headers were applied is discarded: no header is added and the
\* receiver and both buffers stay as they were; likewise an AddHeaders
\* operation for the response phase after on_http_response_headers has run.
C18_AddHeadersAfterPhaseDiscarded ==
    [][/\ (HandlesAddHeaders("Request") /\ IsNone(request_headers_to_add)) => Discarded
       /\ (HandlesAddHeaders("Response") /\ IsNone(response_headers_to_add)) => Discarded]_vars

\* both kinds of AddHeaders were handled after their phase had ended
C18_Witness ==
    \E p, q \in Positions("handle_operation") :
        /\ trace[p].operation.headers.kind = "Request"
        /\ \E r \in Positions("resume_http_request") : r < p
        /\ trace[q].operation.headers.kind = "Response"
        /\ \E r \in Positions("on_http_response_headers") : r < q
        /\ IsNone(request_headers_to_add)
        /\ IsNone(response_headers_to_add)

----------------------------------------------------------------------------
(* The header resolver *)

\* C19: the resolver is initialised once per request: the first
\* get_with_ctx reads the tracing headers of the request, every later call
\* returns the same list without another read, and every gRPC call of the
\* request carries that list, made of the values of this request.
C19_ResolverSingleShotPerRequest ==
    LET reads == Positions("get_http_request_header_bytes")
        calls == Positions("dispatch_grpc_call")
    IN /\ \A p, q \in calls : trace[p].headers = trace[q].headers
       /\ \A r \in reads : \A p \in calls : r < p
       /\ \A r1, r2 \in reads : trace[r1].name = trace[r2].name => r1 = r2
       /\ calls # {} =>
              /\ {trace[r].name : r \in reads} = {"traceparent", "tracestate", "baggage"}
              /\ header_resolver = Some(trace[Min(calls)].headers)
       /\ calls = {} => reads = {} /\ IsNone(header_resolver)
       /\ \A p \in calls :
              \A i \in DOMAIN trace[p].headers :
                  request_headers[trace[p].headers[i][1]] = Some(trace[p].headers[i][2])

\* a request with a traceparent header sent two gRPC calls, the second one
\* from the response callback of the first
C19_Witness ==
    /\ IsSome(request_headers["traceparent"])
    /\ \E p, q \in Positions("dispatch_grpc_call") :
          /\ p < q
          /\ \E r \in Positions("on_grpc_call_response") : p < r /\ r < q
          /\ Len(trace[q].headers) > 0

\* the position of a tracing header in the fixed order
TracingRank(name) ==
    CASE name = "traceparent" -> 1
      [] name = "tracestate" -> 2
      [] name = "baggage" -> 3
      [] OTHER -> 0

\* C20: the list of the resolver holds exactly the headers among
\* traceparent, tracestate and baggage that the request has, each with the
\* value of the request, in that order; it is empty when the request has
\* none of them, and holds no other header of the request.
C20_ResolverListsPresentTracingHeaders ==
    IsSome(header_resolver) =>
        LET list == Unwrap(header_resolver)
            present == {n \in {"traceparent", "tracestate", "baggage"} :
                           IsSome(request_headers[n])}
        IN /\ {list[i][1] : i \in DOMAIN list} = present
           /\ Len(list) = Cardinality(present)
           /\ \A i \in DOMAIN list : request_headers[list[i][1]] = Some(list[i][2])
           /\ \A i, j \in DOMAIN list :
                  i < j => TracingRank(list[i][1]) < TracingRank(list[j][1])
           /\ (present = {} => list = <<>>)

\* the resolver of a request with a traceparent and a baggage header and
\* without a tracestate header holds the two, and a gRPC call went out
C20_Witness ==
    /\ IsNone(request_headers["tracestate"])
    /\ IsSome(header_resolver)
    /\ Len(Unwrap(header_resolver)) = 2
    /\ Positions("dispatch_grpc_call") # {}

----------------------------------------------------------------------------
(* The request authority *)

\* a host name: letters and digits only
IsRegName(s) == \A i \in DOMAIN s : s[i] \in {"h", "8"}

\* an IP literal: an IPv6 address in brackets, written with one "::", as
\* in [::] or [::8]
IsIpLiteral(s) ==
    /\ Len(s) >= 4
    /\ s[1] = "["
    /\ s[Len(s)] = "]"
    /\ \A i \in 2..(Len(s) - 1) : s[i] \in {"8", ":"}
    /\ \E i \in 2..(Len(s) - 2) : s[i] = ":" /\ s[i + 1] = ":"
    /\ \A i \in 2..(Len(s) - 3) : ~(s[i] = ":" /\ s[i + 1] = ":" /\ s[i + 2] = ":")

IsHost(s) == IsRegName(s) \/ IsIpLiteral(s)

\* a port: digits only
IsPort(s) == \A i \in DOMAIN s : s[i] = "8"

\* C21: the authority of the lookup is the :authority header without its
\* ':port' suffix: the host for 'host:port' and for 'host', and the empty
\* string when the header is absent.
C21_AuthorityIsHostWithoutPort ==
    IsSome(authority) =>
        /\ IsNone(authority_header) => Unwrap(authority) = <<>>
        /\ IsSome(authority_header) =>
               LET value == Unwrap(authority_header)
               IN /\ IsHost(value) => Unwrap(authority) = value
                  /\ \A i \in DOMAIN value :
                         (/\ value[i] = ":"
                          /\ IsHost(SubSeq(value, 1, i - 1))
                          /\ IsPort(SubSeq(value, i + 1, Len(value))))
                         => Unwrap(authority) = SubSeq(value, 1, i - 1)

----------------------------------------------------------------------------
(* Termination of the flow *)

\* the request reached Done or Dying: it was passed on or resumed, or it
\* was answered directly
FlowEnded ==
    \/ request_action = "Continue"
    \/ Positions("resume_http_request") # {}
    \/ Positions("send_http_response") # {}

\* C22: when the host answers every gRPC call it accepted, every request
\* that entered the filter reaches Done or Dying, and while it has not, the
\* paused request has a gRPC call outstanding.
C22_FlowEventuallyEnds ==
    /\ [](request_action = "Pause" /\ ~FlowEnded => pending_rpc = 1)
    /\ (request_action # "NotCalled") ~> FlowEnded

\* a request that was paused twice has ended
C22_Witness ==
    /\ FlowEnded
    /\ request_action = "Pause"
    /\ Cardinality(Positions("on_grpc_call_response")) >= 2
    /\ pending_rpc = 0

----------------------------------------------------------------------------
(* The receiver, the resume call and the selected action set *)

\* C23: the receiver stored for a dispatched RPC carries the action set and
\* the action index of the request just dispatched, and every dispatched
\* index is smaller than the number of actions of the set.
C23_ReceiverCarriesDispatchedRequest ==
    /\ \A q \in Positions("dispatch_grpc_call") :
          trace[q].index < Len(trace[q].action_set.actions)
    /\ IsSome(grpc_message_receiver_operation) =>
          /\ Positions("dispatch_grpc_call") # {}
          /\ LET q == Max(Positions("dispatch_grpc_call"))
                 receiver == Unwrap(grpc_message_receiver_operation)
             IN /\ trace[q].result = "Ok"
                /\ receiver.runtime_action_set = trace[q].action_set
                /\ receiver.current_index = trace[q].index

\* the receiver of the RPC of a second action is stored
C23_Witness ==
    /\ IsSome(grpc_message_receiver_operation)
    /\ Unwrap(grpc_message_receiver_operation).current_index >= 1
    /\ Cardinality(Positions("dispatch_grpc_call")) >= 2

\* C24: resume_http_request is called only for a request that was paused:
\* never inside an on_http_request_headers that returns Continue, and at
\* most once per request.
C24_ResumeOnlyPausedRequestOnce ==
    /\ Cardinality(Positions("resume_http_request")) <= 1
    /\ request_action = "Continue" => Resumed(CallsOf(1)) = {}

\* the sets of the looked-up list whose conditions apply, by position
Applying(lookup) ==
    IF IsNone(lookup) THEN {}
    ELSE {k \in DOMAIN Unwrap(lookup) : Unwrap(lookup)[k].conditions}

\* C25: a request runs at most one action set, the first of the looked-up
\* list whose conditions apply: every RPC of the request, and the receiver
\* it stores, belong to that set, and no RPC is sent for any other set,
\* also when that set has no applicable action.
C25_OnlyFirstApplyingSetRuns ==
    trace # <<>> =>
        LET lookup == trace[1].action_sets
            applying == Applying(lookup)
        IN /\ applying = {} =>
                  /\ Positions("dispatch_grpc_call") = {}
                  /\ IsNone(grpc_message_receiver_operation)
           /\ \A k \in applying :
                  (\A j \in applying : k <= j) =>
                      /\ \A q \in Positions("dispatch_grpc_call") :
                             trace[q].action_set = Unwrap(lookup)[k]
                      /\ IsSome(grpc_message_receiver_operation) =>
                             Unwrap(grpc_message_receiver_operation).runtime_action_set
                                 = Unwrap(lookup)[k]

\* the first applying set has no applicable action, a later applying set
\* has one, and the request went on to the response headers
C25_Witness ==
    /\ trace # <<>>
    /\ \E k, j \in Applying(trace[1].action_sets) :
          /\ k < j
          /\ \A i \in Applying(trace[1].action_sets) : k <= i
          /\ Applicable(Unwrap(trace[1].action_sets)[k], 0) = {}
          /\ Applicable(Unwrap(trace[1].action_sets)[j], 0) # {}
    /\ response_calls >= 1

----------------------------------------------------------------------------
(* The flattened metadata *)

\* the keys joined by the separator
RECURSIVE JoinKeys(_)
JoinKeys(keys) ==
    IF Len(keys) = 1 THEN keys[1]
    ELSE keys[1] \o "\\." \o JoinKeys(Tail(keys))

\* the scalar leaves of a struct, each with the keys that lead to it
RECURSIVE ScalarLeaves(_, _)
ScalarLeaves(s, keys) ==
    UNION {LET here == Append(keys, s[i][1])
               value == s[i][2]
           IN IF value.kind = "struct" THEN ScalarLeaves(value.struct_value, here)
              ELSE IF value.kind \in {"string", "bool", "null", "number"}
              THEN {[keys |-> here, value |-> value]}
              ELSE {} :
           i \in DOMAIN s}

JsonOf(value) ==
    CASE value.kind = "string" -> "\"" \o value.string_value \o "\""
      [] value.kind = "bool" -> (IF value.bool_value THEN "true" ELSE "false")
      [] value.kind = "null" -> "null"
      [] value.kind = "number" -> "1.0"

\* C26: process_metadata returns one (path, value) entry per scalar leaf of
\* the struct: the path is the keys from the root joined by the separator
\* backslash-dot, the value the JSON text of the leaf; a struct-valued
\* field gives the entries of its leaves and none of its own.
C26_MetadataFlattenedPerLeaf ==
    IsSome(attributes) =>
        LET result == Unwrap(attributes)
            leaves == ScalarLeaves(metadata, <<>>)
        IN /\ Len(result) = Cardinality(leaves)
           /\ {result[i] : i \in DOMAIN result}
                  = {<<JoinKeys(leaf.keys), JsonOf(leaf.value)>> : leaf \in leaves}

====
